---- MODULE Spec2Model ----
(***************************************************************************)
(* A model of scripts/fetch_models.py: one run of main() fetches the       *)
(* OpenRouter model listing, keeps the zero-cost / ":free" models, matches *)
(* them against the artificialanalysis.ai (AA) catalog, ranks them and     *)
(* writes docs/index.html.                                                 *)
(*                                                                         *)
(* Python values are tagged records: None, str (a sequence of one-char     *)
(* strings), int, float (an exact decimal num/den, den a power of ten),    *)
(* NaN, and the non-mapping shapes a JSON body can have.  Python dicts     *)
(* whose iteration order the code depends on (the AA index, an AA entry's  *)
(* evaluations) are sequences of <<key, value>> pairs in insertion order;  *)
(* the others are functions from field names to values.                    *)
(***************************************************************************)
EXTENDS Integers, Sequences, FiniteSets, TLC

VARIABLES
    pc,            \* position of main(): "start", "keyed", "listed", "mapped", "indexed",
                   \* "ranked", "done" (returned), "exit1" (sys.exit(1)),
                   \* "crashed" (uncaught exception, traceback, exit status 1)
    world,         \* what the run has read from outside: listing response,
                   \* mapping file, AA key, AA response (each "unread" until read)
    models,        \* main's list `models`
    aa_map,        \* main's `aa_map`
    aa_index,      \* main's `aa_index`, <<key, entry>> pairs in insertion order
    final_sorted,  \* main's `final_sorted`
    api_key,       \* main's `api_key` (Raise: load_api_key raised)
    disk,          \* content of docs/index.html (None until first written)
    wrote,         \* TRUE once this run has written docs/index.html
    hashseed       \* the process's str hash seed (PYTHONHASHSEED, random per process):
                   \* 0 names the first run's seed, a later run has the same or another

vars == <<pc, world, api_key, models, aa_map, aa_index, final_sorted, disk, wrote, hashseed>>

-----------------------------------------------------------------------------
(* Python values *)

None == [t |-> "none"]
S(chars) == [t |-> "str", s |-> chars]
I(n) == [t |-> "int", n |-> n]
F(num, den) == [t |-> "float", num |-> num, den |-> den]
NaN == [t |-> "nan"]
Raise == [t |-> "raise"]
Array(items) == [t |-> "array", items |-> items]
Dict(items) == [t |-> "dict", items |-> items]
Unread == [t |-> "unread"]

\* dict.get(k) on a dict modelled as a function from field names
Get(d, k) == IF k \in DOMAIN d THEN d[k] ELSE None

\* dict.get(k, default)
GetDefault(d, k, default) == IF k \in DOMAIN d THEN d[k] ELSE default

\* a value that has .get: the dicts are the functions without a tag
IsMapping(v) == "t" \notin DOMAIN v

\* Python truthiness of the values a field can hold
Truthy(v) ==
    CASE v.t = "none" -> FALSE
      [] v.t = "str" -> v.s # <<>>
      [] v.t = "int" -> v.n # 0
      [] v.t = "float" -> v.num # 0
      [] v.t = "dict" -> v.items # <<>>
      [] v.t = "array" -> v.items # <<>>
      [] OTHER -> TRUE

\* `a or b`
Or(a, b) == IF Truthy(a) THEN a ELSE b

-----------------------------------------------------------------------------
(* Characters and strings *)

UpperLetters ==
    <<"A", "B", "C", "D", "E", "F", "G", "H", "I", "J", "K", "L", "M",
      "N", "O", "P", "Q", "R", "S", "T", "U", "V", "W", "X", "Y", "Z">>

LowerLetters ==
    <<"a", "b", "c", "d", "e", "f", "g", "h", "i", "j", "k", "l", "m",
      "n", "o", "p", "q", "r", "s", "t", "u", "v", "w", "x", "y", "z">>

Digits == <<"0", "1", "2", "3", "4", "5", "6", "7", "8", "9">>

\* the characters of the model in code-point order
Ascii ==
    <<" ", "\"", "#", "&", "'", "(", ")", "+", "-", ".", "/">> \o Digits
      \o <<":", ";", "<", "=", ">">> \o UpperLetters \o <<"_">> \o LowerLetters

IndexIn(seq, c) == CHOOSE i \in 1..Len(seq) : seq[i] = c

IsIn(seq, c) == \E i \in 1..Len(seq) : seq[i] = c

Code(c) == IndexIn(Ascii, c)

LowerChar(c) == IF IsIn(UpperLetters, c) THEN LowerLetters[IndexIn(UpperLetters, c)] ELSE c

\* str.lower()
Lower(s) == [i \in 1..Len(s) |-> LowerChar(s[i])]

\* `sub in s`
Contains(sub, s) ==
    \E i \in 0..(Len(s) - Len(sub)) : SubSeq(s, i + 1, i + Len(sub)) = sub

\* str < str: lexicographic by code point
RECURSIVE StrLess(_, _)
StrLess(a, b) ==
    IF b = <<>> THEN FALSE
    ELSE IF a = <<>> THEN TRUE
    ELSE IF a[1] = b[1] THEN StrLess(Tail(a), Tail(b))
    ELSE Code(a[1]) < Code(b[1])

\* str.strip() of spaces
RECURSIVE Strip(_)
Strip(s) ==
    IF s = <<>> THEN s
    ELSE IF s[1] = " " THEN Strip(Tail(s))
    ELSE IF s[Len(s)] = " " THEN Strip(SubSeq(s, 1, Len(s) - 1))
    ELSE s

\* str.replace(old, new), old non-empty
RECURSIVE Replace(_, _, _)
Replace(s, old, new) ==
    IF Len(s) < Len(old) THEN s
    ELSE IF SubSeq(s, 1, Len(old)) = old
         THEN new \o Replace(SubSeq(s, Len(old) + 1, Len(s)), old, new)
         ELSE <<s[1]>> \o Replace(Tail(s), old, new)

\* decimal digits of a natural number
RECURSIVE NatText(_)
NatText(n) == IF n < 10 THEN <<Digits[n + 1]>> ELSE NatText(n \div 10) \o <<Digits[(n % 10) + 1]>>

\* the number of decimals of a denominator 10^k
RECURSIVE Decimals(_)
Decimals(den) == IF den <= 1 THEN 0 ELSE 1 + Decimals(den \div 10)

\* the last k digits of n, zero-padded
RECURSIVE LastDigits(_, _)
LastDigits(n, k) == IF k = 0 THEN <<>> ELSE LastDigits(n \div 10, k - 1) \o <<Digits[(n % 10) + 1]>>

\* repr() of a float num/den in positional notation (the magnitudes the model draws)
FloatText(f) ==
    LET a == IF f.num < 0 THEN -f.num ELSE f.num
    IN  (IF f.num < 0 THEN <<"-">> ELSE <<>>) \o NatText(a \div f.den) \o <<".">>
          \o (IF f.den = 1 THEN <<"0">> ELSE LastDigits(a % f.den, Decimals(f.den)))

\* str(x) for the values the code applies it to
PyStr(v) ==
    CASE v.t = "str" -> v.s
      [] v.t = "none" -> <<"N", "o", "n", "e">>
      [] v.t = "int" -> IF v.n < 0 THEN <<"-">> \o NatText(-v.n) ELSE NatText(v.n)
      [] v.t = "float" -> FloatText(v)
      [] v.t = "nan" -> <<"n", "a", "n">>

-----------------------------------------------------------------------------
(* float(x) *)

RECURSIVE Pow10(_)
Pow10(k) == IF k = 0 THEN 1 ELSE 10 * Pow10(k - 1)

RECURSIVE DigitsVal(_)
DigitsVal(ds) ==
    IF ds = <<>> THEN 0 ELSE 10 * DigitsVal(SubSeq(ds, 1, Len(ds) - 1)) + (IndexIn(Digits, ds[Len(ds)]) - 1)

AllDigits(ds) == \A i \in 1..Len(ds) : IsIn(Digits, ds[i])

\* the float num/den with den the least power of ten (equal floats are equal values)
RECURSIVE Norm(_, _)
Norm(num, den) ==
    IF den > 1 /\ num % 10 = 0 THEN Norm(num \div 10, den \div 10) ELSE F(num, den)

\* float() of an unsigned literal: digits, at most one ".", at least one digit
ParseUnsigned(s, sign) ==
    LET dots == {i \in 1..Len(s) : s[i] = "."}
        dot == IF dots = {} THEN Len(s) + 1 ELSE CHOOSE i \in dots : \A j \in dots : i <= j
        ip == SubSeq(s, 1, dot - 1)
        fp == SubSeq(s, dot + 1, Len(s))
    IN  IF Lower(s) = <<"n", "a", "n">> THEN NaN
        ELSE IF AllDigits(ip) /\ AllDigits(fp) /\ Len(ip) + Len(fp) >= 1
             THEN Norm(sign * DigitsVal(ip \o fp), Pow10(Len(fp)))
             ELSE Raise

\* float() of a str: surrounding spaces stripped, optional sign, then a decimal
\* literal or "nan".  (Exponents, "inf" and "_" separators are not drawn by the
\* model's inputs.)
ParseFloatText(s0) ==
    LET s == Strip(s0)
    IN  IF s = <<>> THEN Raise
        ELSE IF s[1] = "-" THEN ParseUnsigned(Tail(s), -1)
        ELSE IF s[1] = "+" THEN ParseUnsigned(Tail(s), 1)
        ELSE ParseUnsigned(s, 1)

\* float(x): Raise stands for TypeError / ValueError
PyFloat(v) ==
    CASE v.t = "str" -> ParseFloatText(v.s)
      [] v.t = "int" -> F(v.n, 1)
      [] v.t = "float" -> v
      [] v.t = "nan" -> NaN
      [] OTHER -> Raise

FloatLess(a, b) == a.num * b.den < b.num * a.den

Neg(f) == F(-f.num, f.den)

\* f"{x:.2f}" of a float with at most two decimals (the scores the model draws)
Format2f(f) ==
    LET h == IF f.num < 0 THEN ((-f.num) * 100) \div f.den ELSE (f.num * 100) \div f.den
        d == h % 100
    IN  (IF f.num < 0 THEN <<"-">> ELSE <<>>) \o NatText(h \div 100) \o <<".">>
          \o <<Digits[(d \div 10) + 1], Digits[(d % 10) + 1]>>

\* a safe_float whose default is 0: what cannot be parsed counts as zero
safe_float_default0(x) ==
    IF x.t = "none" \/ x = S(<<>>) THEN F(0, 1)
    ELSE IF PyFloat(x) = Raise THEN F(0, 1) ELSE PyFloat(x)

\* safe_float(x, None)
safe_float(x) ==
    IF x.t = "none" \/ x = S(<<>>) THEN None
    ELSE IF PyFloat(x) = Raise THEN None ELSE PyFloat(x)

-----------------------------------------------------------------------------
(* Credentials and the mapping file *)

\* load_api_key(): the stripped key, or Raise for RuntimeError
load_api_key(env, key_file) ==
    IF Truthy(env.OPENROUTER_API_KEY) THEN S(Strip(env.OPENROUTER_API_KEY.s))
    ELSE IF key_file # None THEN S(Strip(key_file.s))
    ELSE Raise

\* the last value stored under key k in a sequence of <<key, value>> pairs
RECURSIVE PairsGet(_, _)
PairsGet(pairs, k) ==
    IF pairs = <<>> THEN None
    ELSE IF pairs[Len(pairs)][1] = k THEN pairs[Len(pairs)][2]
    ELSE PairsGet(SubSeq(pairs, 1, Len(pairs) - 1), k)

PairsHas(pairs, k) == \E i \in 1..Len(pairs) : pairs[i][1] = k

\* {k.lower(): v for k, v in data.items() if isinstance(k, str) and isinstance(v, str)}
\* (JSON object keys are always str)
RECURSIVE LowerKeys(_)
LowerKeys(pairs) ==
    IF pairs = <<>> THEN <<>>
    ELSE LET p == pairs[1]
         IN  (IF p[2].t = "str" THEN <<(<<Lower(p[1]), p[2]>>)>> ELSE <<>>) \o LowerKeys(Tail(pairs))

\* load_aa_map(): file is [t |-> "absent"], [t |-> "invalid"] (not JSON),
\* [t |-> "json", value |-> a Python value]
load_aa_map(file) ==
    IF file.t = "json" /\ file.value.t = "dict" THEN LowerKeys(file.value.items) ELSE <<>>

-----------------------------------------------------------------------------
(* The zero-cost filter: main(), lines 338-377 *)

\* data.get("pricing", {}) or {}
PricingOf(data) == IF Get(data, "pricing") = None THEN <<>> ELSE data.pricing

is_zero_cost(pricing) ==
    LET prompt_cost == safe_float(Get(pricing, "prompt"))
        completion_cost == safe_float(Get(pricing, "completion"))
    IN  /\ prompt_cost # None
        /\ completion_cost # None
        /\ prompt_cost = F(0, 1)
        /\ completion_cost = F(0, 1)

has_free_tag(data) ==
    \E k \in {"id", "name", "display_name"} :
        /\ Truthy(Get(data, k))
        /\ Contains(<<":", "f", "r", "e", "e">>, Lower(PyStr(Get(data, k))))

\* a filter that keeps the zero-cost items only
KeepItem_zero_only(data) == is_zero_cost(PricingOf(data))

KeepItem(data) == is_zero_cost(PricingOf(data)) \/ has_free_tag(data)

ModelRecord(data) ==
    [id |-> Get(data, "id"),
     name |-> Or(Get(data, "name"), Get(data, "display_name")),
     description |-> Get(data, "description"),
     pricing |-> PricingOf(data),
     raw |-> data,
     flags |-> [zero_cost |-> is_zero_cost(PricingOf(data)), free_tag |-> has_free_tag(data)],
     aa_id |-> None,
     aa_overall |-> None]

\* the loop over response.data
RECURSIVE FilterItems(_)
FilterItems(items) ==
    IF items = <<>> THEN <<>>
    ELSE (IF KeepItem(items[1]) THEN <<ModelRecord(items[1])>> ELSE <<>>) \o FilterItems(Tail(items))

-----------------------------------------------------------------------------
(* The AA index *)

\* the keys (m.get("id"), m.get("slug"), m.get("name")) of one catalog entry, added
\* to the index unless already present
RECURSIVE AddKeys(_, _, _)
AddKeys(index, m, keys) ==
    IF keys = <<>> THEN index
    ELSE LET key == Get(m, keys[1])
             lk == Lower(PyStr(key))
         IN  IF Truthy(key) /\ ~PairsHas(index, lk)
             THEN AddKeys(Append(index, <<lk, m>>), m, Tail(keys))
             ELSE AddKeys(index, m, Tail(keys))

\* the loop `for m in items`; Raise when an item has no .get (AttributeError)
RECURSIVE BuildIndex(_, _)
BuildIndex(index, items) ==
    IF items = <<>> THEN [t |-> "ok", index |-> index]
    ELSE IF ~IsMapping(items[1]) THEN Raise
    ELSE BuildIndex(AddKeys(index, items[1], <<"id", "slug", "name">>), Tail(items))

\* a fetch without the status check
fetch_all_aa_models_any_status(resp, json_error) ==
    IF resp.t = "neterr" THEN [t |-> "ok", index |-> <<>>]
    ELSE IF resp.body.t = "invalid"
         THEN (IF json_error.cls = "RequestException" THEN [t |-> "ok", index |-> <<>>] ELSE Raise)
    ELSE LET payload == resp.body.value
         IN  IF ~IsMapping(payload) THEN Raise
             ELSE LET items == Or(Get(payload, "data"), Array(<<>>))
                  IN  IF items.t = "array" THEN BuildIndex(<<>>, items.items) ELSE Raise

\* fetch_all_aa_models(api_key) for a non-empty key, given what requests.get does:
\* [t |-> "neterr"] raises requests.RequestException, [t |-> "http", status, body]
\* is a response whose body is [t |-> "invalid"] (not JSON) or [t |-> "json", value].
\* resp.json() on a body that is not JSON raises requests' JSONDecodeError, a
\* RequestException from requests 2.27 on and a plain ValueError before:
\* json_error is the one this installation raises.  The result is [t |-> "ok", index] or Raise (an
\* exception that leaves the function).
fetch_all_aa_models(resp, json_error) ==
    IF resp.t = "neterr" THEN [t |-> "ok", index |-> <<>>]
    ELSE IF resp.status # 200 THEN [t |-> "ok", index |-> <<>>]
    ELSE IF resp.body.t = "invalid"
         THEN (IF json_error.cls = "RequestException" THEN [t |-> "ok", index |-> <<>>] ELSE Raise)
    ELSE LET payload == resp.body.value
         IN  IF ~IsMapping(payload) THEN Raise
             ELSE LET items == Or(Get(payload, "data"), Array(<<>>))
                  IN  IF items.t = "array" THEN BuildIndex(<<>>, items.items) ELSE Raise

\* values() in an order that follows the hash seed of the process
IndexValues_hash_order(index) ==
    IF hashseed = 0 THEN [i \in 1..Len(index) |-> index[i][2]]
    ELSE [i \in 1..Len(index) |-> index[Len(index) + 1 - i][2]]

\* aa_index.values()
IndexValues(index) == [i \in 1..Len(index) |-> index[i][2]]

-----------------------------------------------------------------------------
(* Score extraction *)

Preferred == <<"artificial_analysis_intelligence_index", "artificial_analysis_overall", "overall">>

\* the loop over the preferred keys: the first one present whose value float() accepts
RECURSIVE PreferredScore(_, _)
PreferredScore(items, keys) ==
    IF keys = <<>> THEN Raise
    ELSE IF PairsHas(items, keys[1]) /\ PyFloat(PairsGet(items, keys[1])) # Raise
         THEN PyFloat(PairsGet(items, keys[1]))
         ELSE PreferredScore(items, Tail(keys))

\* the loop over evals.values(): the first value that is a number and not NaN
RECURSIVE FirstNumeric(_)
FirstNumeric(items) ==
    IF items = <<>> THEN None
    ELSE LET fv == PyFloat(items[1][2])
         IN  IF fv # Raise /\ fv # NaN THEN fv ELSE FirstNumeric(Tail(items))

extract_overall_from_evaluations(evals) ==
    IF evals.t # "dict" THEN None
    ELSE IF PreferredScore(evals.items, Preferred) # Raise
         THEN PreferredScore(evals.items, Preferred)
         ELSE FirstNumeric(evals.items)

-----------------------------------------------------------------------------
(* Matching a record to the catalog *)

\* the candidates list of find_aa_data_for_model / find_aa_id_for_model
Candidates(model) ==
    (IF Truthy(model.id) THEN <<PyStr(model.id)>> ELSE <<>>)
      \o (IF Truthy(model.name) THEN <<PyStr(model.name)>> ELSE <<>>)
      \o (IF Truthy(Get(model.raw, "display_name")) THEN <<PyStr(Get(model.raw, "display_name"))>> ELSE <<>>)

\* str(aa_model.get("name", "")).lower() and the same for "slug"
EntryText(aa_model, field) == Lower(PyStr(GetDefault(aa_model, field, S(<<>>))))

\* phase 1: the mapping file
RECURSIVE MappedMatch(_, _, _)
MappedMatch(cands, map, index) ==
    IF cands = <<>> THEN None
    ELSE LET key == Lower(cands[1])
             mapped == PairsGet(map, key)
         IN  IF PairsHas(map, key) /\ Truthy(mapped) /\ PairsHas(index, Lower(PyStr(mapped)))
             THEN PairsGet(index, Lower(PyStr(mapped)))
             ELSE MappedMatch(Tail(cands), map, index)

\* phase 2: a candidate that is an index key
RECURSIVE DirectMatch(_, _)
DirectMatch(cands, index) ==
    IF cands = <<>> THEN None
    ELSE IF PairsHas(index, Lower(cands[1])) THEN PairsGet(index, Lower(cands[1]))
    ELSE DirectMatch(Tail(cands), index)

\* phase 3, inner loop: the first entry whose name or slug contains lo
RECURSIVE FirstContaining(_, _)
FirstContaining(lo, entries) ==
    IF entries = <<>> THEN None
    ELSE IF Contains(lo, EntryText(entries[1], "name")) \/ Contains(lo, EntryText(entries[1], "slug"))
         THEN entries[1]
         ELSE FirstContaining(lo, Tail(entries))

\* phase 3, outer loop over the candidates
RECURSIVE SubstringMatch(_, _)
SubstringMatch(cands, entries) ==
    IF cands = <<>> THEN None
    ELSE IF FirstContaining(Lower(cands[1]), entries) # None
         THEN FirstContaining(Lower(cands[1]), entries)
         ELSE SubstringMatch(Tail(cands), entries)

find_aa_data_for_model(model, map, index) ==
    LET cands == Candidates(model)
    IN  IF MappedMatch(cands, map, index) # None THEN MappedMatch(cands, map, index)
        ELSE IF DirectMatch(cands, index) # None THEN DirectMatch(cands, index)
        ELSE SubstringMatch(cands, IndexValues(index))

\* the first candidate that is a mapping key
RECURSIVE FirstMapped(_, _)
FirstMapped(cands, map) ==
    IF cands = <<>> THEN Raise
    ELSE IF PairsHas(map, Lower(cands[1])) THEN PairsGet(map, Lower(cands[1]))
    ELSE FirstMapped(Tail(cands), map)

\* a lookup that never guesses: the mapped id or nothing
find_aa_id_for_model_no_guess(model, map) ==
    LET cands == Candidates(model)
    IN  IF FirstMapped(cands, map) # Raise THEN FirstMapped(cands, map) ELSE None

find_aa_id_for_model(model, map) ==
    LET cands == Candidates(model)
    IN  IF FirstMapped(cands, map) # Raise THEN FirstMapped(cands, map)
        ELSE IF cands # <<>> THEN S(cands[1])
        ELSE None

\* one iteration of main's loop `for m in models` (lines 392-404)
Enrich(m, map, index) ==
    LET aa_data == IF index # <<>> THEN find_aa_data_for_model(m, map, index) ELSE None
    IN  IF aa_data # None
        THEN [m EXCEPT !.aa_id = Or(Get(aa_data, "id"), Get(aa_data, "slug")),
                       !.aa_overall = extract_overall_from_evaluations(
                                          Or(Get(aa_data, "evaluations"), Dict(<<>>)))]
        ELSE LET aa_id_guess == find_aa_id_for_model(m, map)
             IN  IF Truthy(aa_id_guess) THEN [m EXCEPT !.aa_id = aa_id_guess] ELSE m

EnrichAll(ms, map, index) == [i \in 1..Len(ms) |-> Enrich(ms[i], map, index)]

-----------------------------------------------------------------------------
(* Ranking: main(), lines 406-427 *)

is_valid_score(m) == m.aa_overall # None /\ PyFloat(m.aa_overall) # Raise /\ PyFloat(m.aa_overall) # NaN

\* a name key that keeps the case
NameKey_cased(m) == S(Or(m.name, S(<<>>)).s)

\* (x.get("name") or "").lower()
NameKey(m) == S(Lower(Or(m.name, S(<<>>)).s))

\* the key of the scored group: (-float(x["aa_overall"]), name)
NumericKey(m) == <<Neg(PyFloat(m.aa_overall)), NameKey(m)>>

\* < on the sort keys: floats, strs, and tuples of them compared lexicographically
PyLess(a, b) == IF a.t = "float" THEN FloatLess(a, b) ELSE StrLess(a.s, b.s)

RECURSIVE TupleLess(_, _)
TupleLess(a, b) ==
    IF b = <<>> THEN FALSE
    ELSE IF a = <<>> THEN TRUE
    ELSE IF a[1] = b[1] THEN TupleLess(Tail(a), Tail(b))
    ELSE PyLess(a[1], b[1])

\* sorted(): stable, so an element goes after every element already placed whose
\* key is not greater than its own
RECURSIVE InsertByKey(_, _)
InsertByKey(sorted, x) ==
    IF sorted = <<>> THEN <<x>>
    ELSE IF TupleLess(x.key, sorted[1].key) THEN <<x>> \o sorted
    ELSE <<sorted[1]>> \o InsertByKey(Tail(sorted), x)

RECURSIVE SortKeyed(_)
SortKeyed(keyed) ==
    IF keyed = <<>> THEN <<>>
    ELSE InsertByKey(SortKeyed(SubSeq(keyed, 1, Len(keyed) - 1)), keyed[Len(keyed)])

Unkey(keyed) == [i \in 1..Len(keyed) |-> keyed[i].m]

numeric_sorted(ms) ==
    LET numeric == SelectSeq(ms, is_valid_score)
    IN  Unkey(SortKeyed([i \in 1..Len(numeric) |-> [key |-> NumericKey(numeric[i]), m |-> numeric[i]]]))

non_numeric_sorted(ms) ==
    LET IsNot(m) == ~is_valid_score(m)
        non_numeric == SelectSeq(ms, IsNot)
    IN  Unkey(SortKeyed([i \in 1..Len(non_numeric) |-> [key |-> <<NameKey(non_numeric[i])>>, m |-> non_numeric[i]]]))

Rank(ms) == numeric_sorted(ms) \o non_numeric_sorted(ms)

-----------------------------------------------------------------------------
(* Rendering *)

\* html.escape(c, quote=False)
EscChar_no_quote(c) ==
    CASE c = "&" -> <<"&", "a", "m", "p", ";">>
      [] c = "<" -> <<"&", "l", "t", ";">>
      [] c = ">" -> <<"&", "g", "t", ";">>
      [] OTHER -> <<c>>

\* html.escape(c) of one character
EscChar(c) ==
    CASE c = "&" -> <<"&", "a", "m", "p", ";">>
      [] c = "<" -> <<"&", "l", "t", ";">>
      [] c = ">" -> <<"&", "g", "t", ";">>
      [] c = "\"" -> <<"&", "q", "u", "o", "t", ";">>
      [] c = "'" -> <<"&", "#", "x", "2", "7", ";">>
      [] OTHER -> <<c>>

RECURSIVE HtmlEscape(_)
HtmlEscape(s) == IF s = <<>> THEN <<>> ELSE EscChar(s[1]) \o HtmlEscape(Tail(s))

\* esc(s) of render_index_html
esc(v) == IF v = None THEN <<>> ELSE HtmlEscape(PyStr(v))

\* The document is a sequence of fragments: Lit is text of the template (a TLA+
\* string naming it), Txt is interpolated text (a sequence of characters).
Lit(text) == [lit |-> text]
Txt(chars) == [txt |-> chars]

score_display(m) ==
    IF m.aa_overall # None /\ PyFloat(m.aa_overall) # Raise /\ PyFloat(m.aa_overall) # NaN
    THEN S(Format2f(PyFloat(m.aa_overall)))
    ELSE S(<<"-">>)

\* one element of `rows`
Row(m) ==
    LET name == esc(Or(Or(m.name, m.id), S(<<"u", "n", "k", "n", "o", "w", "n">>)))
        idv == esc(Or(m.id, S(<<>>)))
        desc == esc(Or(m.description, S(<<>>)))
        prompt == esc(GetDefault(m.pricing, "prompt", S(<<"-">>)))
        completion == esc(GetDefault(m.pricing, "completion", S(<<"-">>)))
        badges == (IF m.flags.zero_cost THEN <<Lit("<span class='badge zero'>zero-cost</span>")>> ELSE <<>>)
                    \o (IF m.flags.zero_cost /\ m.flags.free_tag THEN <<Lit(" ")>> ELSE <<>>)
                    \o (IF m.flags.free_tag THEN <<Lit("<span class='badge free'>:free</span>")>> ELSE <<>>)
        aa_info == IF Truthy(m.aa_id)
                   THEN <<Lit("<div class='meta'>AA id: "), Txt(esc(m.aa_id)), Lit(" - score: "),
                          Txt(esc(score_display(m))), Lit("</div>")>>
                   ELSE <<Lit("<div class='meta'>AA id: (not mapped) - score: "),
                          Txt(esc(score_display(m))), Lit("</div>")>>
    IN  <<Lit("<li class='model'><h3>"), Txt(name), Lit("</h3><div class='meta'>"), Txt(idv), Lit(" ")>>
          \o badges \o <<Lit("</div>")>>
          \o (IF desc # <<>> THEN <<Lit("<p>"), Txt(desc), Lit("</p>")>> ELSE <<>>)
          \o <<Lit("<div class='meta'>pricing: prompt="), Txt(prompt), Lit(" completion="),
               Txt(completion), Lit("</div>")>>
          \o aa_info \o <<Lit("</li>")>>

\* "\n".join(rows) or the placeholder item
RECURSIVE JoinRows(_)
JoinRows(ms) ==
    IF ms = <<>> THEN <<>>
    ELSE IF Len(ms) = 1 THEN Row(ms[1])
    ELSE Row(ms[1]) \o <<Lit("\n")>> \o JoinRows(Tail(ms))

\* render_index_html(data): the page, with the one place that holds the timestamp
\* kept apart from what precedes and follows it
render_index_html(data) ==
    [head |-> <<Lit("<!doctype html>...<h1>...</h1><div class='muted'>Generated: ")>>,
     generated_at |-> Txt(esc(data.generated_at)),
     body |-> <<Lit("</div><ul class='models-list'>")>>
                \o (IF data.models = <<>> THEN <<Lit("<li class='muted'>No models found.</li>")>>
                    ELSE JoinRows(data.models))
                \o <<Lit("</ul><footer>...</footer></main></body></html>")>>]

\* datetime.now(UTC).isoformat().replace("+00:00", "Z")
generated_at(now) == S(Replace(now, <<"+", "0", "0", ":", "0", "0">>, <<"Z">>))

-----------------------------------------------------------------------------
(* What a run can read from outside *)

MaxItems == 3      \* longest listing response
MaxEntries == 2    \* longest AA catalog

\* OpenRouter listing items, as to_dict() returns them
ItemZero ==
    [id |-> S(<<"z", "e", "d", "/", "a">>),
     name |-> S(<<"B", "e", "t", "a">>),
     description |-> S(<<"\"", "R", "&", "D", "'", "s", "\"">>),
     pricing |-> [prompt |-> S(<<"0">>), completion |-> S(<<"0", ".", "0">>)]]

ItemFree ==
    [id |-> S(<<"m", "/", "x", ":", "f", "r", "e", "e">>),
     name |-> S(<<"a", "l", "p", "h", "a">>),
     description |-> None,
     pricing |-> [prompt |-> I(0),
                  completion |-> S(<<"n", "o", "t", "-", "a", "-", "n", "u", "m", "b", "e", "r">>)]]

ItemNoPrice ==
    [id |-> S(<<"p", "/", "q">>),
     display_name |-> S(<<"D", "e", "l", "t", "a">>),
     pricing |-> [prompt |-> S(<<"0">>), completion |-> S(<<>>)]]

ItemTag ==
    [id |-> S(<<"o", "n", "e">>),
     name |-> S(<<"<", "s", "c", "r", "i", "p", "t", ">">>),
     display_name |-> S(<<"G", "a", "m", "m", "a", ":", "F", "R", "E", "E">>),
     pricing |-> [prompt |-> None]]

ItemPool == {ItemZero, ItemFree, ItemNoPrice, ItemTag}

\* the sequences over pool of length at most n without repetition
InjSeqs(pool, n) ==
    {s \in UNION {[1..k -> pool] : k \in 0..n} : \A i, j \in DOMAIN s : i # j => s[i] # s[j]}

\* client.models.list(): raises, or returns the models (each listed once)
ListingResponses ==
    {Raise} \cup {[t |-> "ok", data |-> items] : items \in InjSeqs(ItemPool, MaxItems)}

\* AA catalog entries
EntryA ==
    [id |-> S(<<"a", "a", "-", "1">>),
     slug |-> S(<<"a", "l", "-", "o", "n", "e">>),
     name |-> S(<<"A", "l", "p", "h", "a">>),
     evaluations |-> Dict(<<(<<"artificial_analysis_intelligence_index", F(90, 1)>>)>>)]

EntryB ==
    [id |-> S(<<"A", "A", "-", "2">>),
     slug |-> S(<<"b", "e", "t", "a", "-", "x">>),
     name |-> S(<<"B", "e", "t", "a", " ", "X">>),
     evaluations |-> Dict(<<(<<"artificial_analysis_intelligence_index", S(<<"n", "/", "a">>)>>),
                            (<<"coding", None>>),
                            (<<"overall", S(<<"9", "0">>)>>)>>)]

EntryC ==
    [slug |-> S(<<"x", "-", "z", "e", "d", "/", "a">>),
     name |-> None,
     evaluations |-> Dict(<<(<<"mmlu", S(<<"n", "/", "a">>)>>),
                            (<<"math", NaN>>),
                            (<<"gpqa", F(705, 10)>>)>>)]

EntryD ==
    [id |-> S(<<"A", "A", "-", "1">>),
     slug |-> S(<<"m", "/", "x", ":", "f", "r", "e", "e">>),
     name |-> S(<<"B", "e", "t", "a">>),
     evaluations |-> Dict(<<(<<"artificial_analysis_intelligence_index", NaN>>),
                            (<<"overall", I(50)>>)>>)]

\* a catalog element that is not a mapping
EntryBad == S(<<"o", "o", "p", "s">>)

EntryPool == {EntryA, EntryB, EntryC, EntryD}

\* what requests.get(AA_MODELS_ENDPOINT) does
AaResponses ==
    {[t |-> "neterr"],
     [t |-> "http", status |-> 500, body |-> [t |-> "json", value |-> [data |-> Array(<<EntryA, EntryB>>)]]],
     [t |-> "http", status |-> 200, body |-> [t |-> "invalid"]],
     [t |-> "http", status |-> 200, body |-> [t |-> "json", value |-> Array(<<>>)]],
     [t |-> "http", status |-> 200, body |-> [t |-> "json", value |-> [error |-> S(<<"x">>)]]],
     [t |-> "http", status |-> 200, body |-> [t |-> "json", value |-> [data |-> Array(<<EntryA, EntryBad>>)]]]}
    \cup {[t |-> "http", status |-> 200, body |-> [t |-> "json", value |-> [data |-> Array(entries)]]] :
            entries \in InjSeqs(EntryPool, MaxEntries)}

\* scripts/aa_model_map.json
MapFiles ==
    {[t |-> "absent"],
     [t |-> "invalid"],
     [t |-> "json", value |-> Array(<<>>)],
     [t |-> "json", value |-> Dict(<<(<<(<<"M", "/", "X", ":", "f", "r", "e", "e">>), S(<<"A", "A", "-", "2">>)>>),
                                      (<<(<<"a", "l", "p", "h", "a">>), S(<<"a", "a", "-", "1">>)>>),
                                      (<<(<<"B", "e", "t", "a">>), S(<<>>)>>),
                                      (<<(<<"o", "n", "e">>), S(<<"n", "o", "p", "e">>)>>),
                                      (<<(<<"z", "e", "d", "/", "a">>), I(5)>>)>>)]}

\* the process environment and api_key.txt (None: no such file)
Environments ==
    [OPENROUTER_API_KEY : {None, S(<<"k", " ">>)}, ARTIFICIALANALYSIS_API_KEY : {None, S(<<"a">>)}]

KeyFiles == {None, S(<<" ", "k">>)}

\* datetime.now(UTC).isoformat()
Clock == {<<"T", "1", "+", "0", "0", ":", "0", "0">>, <<"T", "2", "+", "0", "0", ":", "0", "0">>}

\* what resp.json() raises on a body that is not JSON
JsonErrors == {[t |-> "exception", cls |-> "RequestException"], [t |-> "exception", cls |-> "ValueError"]}

\* an input is drawn when it is first read and is the same when read again
Source(read, choices) == IF read = Unread THEN choices ELSE {read}

-----------------------------------------------------------------------------
(* main() *)

Init ==
    /\ pc = "start"
    /\ world = [env |-> Unread, key_file |-> Unread, listing |-> Unread,
                mapfile |-> Unread, aaresp |-> Unread, json_error |-> Unread]
    /\ api_key = None
    /\ models = <<>>
    /\ aa_map = <<>>
    /\ aa_index = <<>>
    /\ final_sorted = <<>>
    /\ disk = None
    /\ wrote = FALSE
    /\ hashseed = 0

\* lines 324-328: load_api_key(), sys.exit(1) when it raises
LoadApiKey ==
    /\ pc = "start"
    /\ \E env \in Source(world.env, Environments) :
       \E key_file \in (IF Truthy(env.OPENROUTER_API_KEY) THEN {world.key_file}
                        ELSE Source(world.key_file, KeyFiles)) :
          /\ world' = [world EXCEPT !.env = env, !.key_file = key_file]
          /\ api_key' = load_api_key(env, key_file)
          /\ pc' = IF load_api_key(env, key_file) = Raise THEN "exit1" ELSE "keyed"
    /\ UNCHANGED <<models, aa_map, aa_index, final_sorted, disk, wrote, hashseed>>

\* a listing step that goes on with no models when the call raises
ListModels_swallow ==
    /\ pc = "keyed"
    /\ \E response \in Source(world.listing, ListingResponses) :
          /\ world' = [world EXCEPT !.listing = response]
          /\ pc' = "listed"
          /\ models' = IF response = Raise THEN <<>> ELSE FilterItems(response.data)
    /\ UNCHANGED <<api_key, aa_map, aa_index, final_sorted, disk, wrote, hashseed>>

\* lines 330-377: the listing call, sys.exit(1) when it raises, then the filter
ListModels ==
    /\ pc = "keyed"
    /\ \E response \in Source(world.listing, ListingResponses) :
          /\ world' = [world EXCEPT !.listing = response]
          /\ IF response = Raise
             THEN pc' = "exit1" /\ UNCHANGED models
             ELSE pc' = "listed" /\ models' = FilterItems(response.data)
    /\ UNCHANGED <<api_key, aa_map, aa_index, final_sorted, disk, wrote, hashseed>>

\* line 380: load_aa_map()
LoadAaMap ==
    /\ pc = "listed"
    /\ \E file \in Source(world.mapfile, MapFiles) :
          /\ world' = [world EXCEPT !.mapfile = file]
          /\ aa_map' = load_aa_map(file)
    /\ pc' = "mapped"
    /\ UNCHANGED <<api_key, models, aa_index, final_sorted, disk, wrote, hashseed>>

\* lines 381-390: the catalog is fetched only when the AA key is set; an exception
\* that leaves fetch_all_aa_models is caught nowhere
FetchAaIndex ==
    /\ pc = "mapped"
    /\ IF Truthy(world.env.ARTIFICIALANALYSIS_API_KEY)
       THEN \E resp \in Source(world.aaresp, AaResponses) :
            \E json_error \in (IF resp.t = "http" /\ resp.status = 200 /\ resp.body.t = "invalid"
                               THEN Source(world.json_error, JsonErrors)
                               ELSE {world.json_error}) :
               LET r == fetch_all_aa_models(resp, json_error)
               IN  /\ world' = [world EXCEPT !.aaresp = resp, !.json_error = json_error]
                   /\ IF r = Raise
                      THEN pc' = "crashed" /\ UNCHANGED aa_index
                      ELSE pc' = "indexed" /\ aa_index' = r.index
       ELSE pc' = "indexed" /\ UNCHANGED <<world, aa_index>>
    /\ UNCHANGED <<api_key, models, aa_map, final_sorted, disk, wrote, hashseed>>

\* lines 392-427: enrichment of every record, then the ranking
EnrichAndRank ==
    /\ pc = "indexed"
    /\ models' = EnrichAll(models, aa_map, aa_index)
    /\ final_sorted' = Rank(EnrichAll(models, aa_map, aa_index))
    /\ pc' = "ranked"
    /\ UNCHANGED <<world, api_key, aa_map, aa_index, disk, wrote, hashseed>>

\* lines 429-439: the page is rendered and written, main returns
WriteIndex ==
    /\ pc = "ranked"
    /\ \E now \in Clock :
          disk' = render_index_html([generated_at |-> generated_at(now), models |-> final_sorted])
    /\ wrote' = TRUE
    /\ pc' = "done"
    /\ UNCHANGED <<world, api_key, models, aa_map, aa_index, final_sorted, hashseed>>

\* the script is run again: a new process, the same outside world, the file of
\* the previous run still on disk
Rerun ==
    /\ pc \in {"done", "exit1", "crashed"}
    /\ pc' = "start"
    /\ api_key' = None
    /\ models' = <<>>
    /\ aa_map' = <<>>
    /\ aa_index' = <<>>
    /\ final_sorted' = <<>>
    /\ wrote' = FALSE
    /\ hashseed' \in {0, 1}
    /\ UNCHANGED <<world, disk>>

Next == LoadApiKey \/ ListModels \/ LoadAaMap \/ FetchAaIndex \/ EnrichAndRank \/ WriteIndex

Spec == Init /\ [][Next]_vars

\* the exit status of the process
ExitCode == IF pc = "done" THEN 0 ELSE 1

Ended == pc \in {"done", "exit1", "crashed"}

-----------------------------------------------------------------------------
(* Runs again and again on one outside world, both keys set and the mapping  *)
(* file a JSON object                                                        *)

InitRerun ==
    /\ pc = "start"
    /\ world = [env |-> [OPENROUTER_API_KEY |-> S(<<"k", " ">>), ARTIFICIALANALYSIS_API_KEY |-> S(<<"a">>)],
                key_file |-> Unread, listing |-> Unread,
                mapfile |-> CHOOSE f \in MapFiles : f.t = "json" /\ f.value.t = "dict",
                aaresp |-> Unread, json_error |-> Unread]
    /\ api_key = None
    /\ models = <<>>
    /\ aa_map = <<>>
    /\ aa_index = <<>>
    /\ final_sorted = <<>>
    /\ disk = None
    /\ wrote = FALSE
    /\ hashseed = 0

NextRerun == Next \/ Rerun

SpecRerun == InitRerun /\ [][NextRerun]_vars

-----------------------------------------------------------------------------
(* The filter on one listed model, over every shape of its pricing           *)

PriceValues ==
    {None, S(<<>>), S(<<"0">>), S(<<"0", ".", "0">>), S(<<"-", "0">>), S(<<" ", "0", " ">>),
     S(<<"0", ".", "0", "0", "1">>), S(<<"1">>), S(<<"n", "a", "n">>),
     S(<<"n", "o", "t", "-", "a", "-", "n", "u", "m", "b", "e", "r">>),
     I(0), I(1), F(0, 1), F(5, 10)}

PricingDicts ==
    {[k \in present |-> values[k]] :
        present \in SUBSET {"prompt", "completion"},
        values \in [{"prompt", "completion"} -> PriceValues]}

PricedItems ==
    {[id |-> id, pricing |-> pricing] :
        id \in {S(<<"p", "/", "q">>), S(<<"m", "/", "x", ":", "f", "r", "e", "e">>)},
        pricing \in PricingDicts \cup {None}}

InitPricing ==
    /\ pc = "start"
    /\ world \in {[env |-> [OPENROUTER_API_KEY |-> S(<<"k", " ">>), ARTIFICIALANALYSIS_API_KEY |-> None],
                   key_file |-> Unread,
                   listing |-> [t |-> "ok", data |-> <<item>>],
                   mapfile |-> [t |-> "absent"],
                   aaresp |-> Unread, json_error |-> Unread] : item \in PricedItems}
    /\ api_key = None
    /\ models = <<>>
    /\ aa_map = <<>>
    /\ aa_index = <<>>
    /\ final_sorted = <<>>
    /\ disk = None
    /\ wrote = FALSE
    /\ hashseed = 0

SpecPricing == InitPricing /\ [][Next]_vars

-----------------------------------------------------------------------------
(* What the claims say, in their own terms *)

Range(seq) == {seq[i] : i \in DOMAIN seq}

Occurrences(seq, x) == Cardinality({i \in DOMAIN seq : seq[i] = x})

ListingRead == world.listing # Unread /\ world.listing # Raise

\* ":free" occurs in the lower-cased id, name or display_name
ClaimFreeTag(item) ==
    \E k \in {"id", "name", "display_name"} :
        /\ k \in DOMAIN item
        /\ item[k].t = "str"
        /\ \E i \in 1..(Len(item[k].s) - 4) :
              Lower(SubSeq(item[k].s, i, i + 4)) = <<":", "f", "r", "e", "e">>

\* a price field is a number: present, not empty, accepted by float(), not NaN
ClaimIsNumber(pricing, k) ==
    /\ k \in DOMAIN pricing
    /\ pricing[k] \notin {None, S(<<>>)}
    /\ PyFloat(pricing[k]) \notin {Raise, NaN}

\* both price fields are numbers and both are zero
ClaimZeroCost(item) ==
    /\ "pricing" \in DOMAIN item
    /\ IsMapping(item.pricing)
    /\ \A k \in {"prompt", "completion"} :
          ClaimIsNumber(item.pricing, k) /\ PyFloat(item.pricing[k]).num = 0

RowStart == Lit("<li class='model'><h3>")

\* C1: once the records are ranked, the final list holds exactly the listed items
\* whose zero_cost or free_tag flag is true (each as often as it was listed), the
\* flags are what the parsing rules say, and the written page has one row per
\* record of the final list.
C1_FilterIff ==
    pc \in {"ranked", "done"} =>
        /\ \A item \in Range(world.listing.data) :
              Occurrences([i \in DOMAIN final_sorted |-> final_sorted[i].raw], item)
                = IF ClaimZeroCost(item) \/ ClaimFreeTag(item)
                  THEN Occurrences(world.listing.data, item) ELSE 0
        /\ \A i \in DOMAIN final_sorted :
              /\ final_sorted[i].raw \in Range(world.listing.data)
              /\ final_sorted[i].flags.zero_cost = ClaimZeroCost(final_sorted[i].raw)
              /\ final_sorted[i].flags.free_tag = ClaimFreeTag(final_sorted[i].raw)
              /\ final_sorted[i].flags.zero_cost \/ final_sorted[i].flags.free_tag
        /\ pc = "done" => Occurrences(disk.body, RowStart) = Len(final_sorted)

\* C1 witness: a page written from a listing of three of which one was dropped,
\* one kept for its price, one for its tag, one of them enriched with a score
C1_Witness ==
    /\ pc = "done"
    /\ Len(world.listing.data) = 3
    /\ Len(final_sorted) = 2
    /\ \E i, j \in DOMAIN final_sorted :
          /\ final_sorted[i].flags.zero_cost /\ ~final_sorted[i].flags.free_tag
          /\ final_sorted[j].flags.free_tag /\ ~final_sorted[j].flags.zero_cost
          /\ final_sorted[i].aa_overall # None

\* C5: a record's zero_cost flag is true exactly when both price fields are
\* numbers equal to zero (a missing, empty or non-numeric field is never zero),
\* and a listed item whose id carries ":free" is kept whatever its prices.
C5_ZeroCostOnlyWhenBothParse ==
    pc \notin {"start", "keyed", "exit1"} =>
        /\ \A i \in DOMAIN models :
              models[i].flags.zero_cost = ClaimZeroCost(models[i].raw)
        /\ \A item \in Range(world.listing.data) :
              /\ ClaimZeroCost(item) => \E i \in DOMAIN models : models[i].raw = item
              /\ ClaimFreeTag(item) => \E i \in DOMAIN models : models[i].raw = item
              /\ ~ClaimZeroCost(item) /\ ~ClaimFreeTag(item) => \A i \in DOMAIN models : models[i].raw # item

\* C5 witness: prompt = 0 and completion = "not-a-number" under an id with ":free":
\* kept, and not zero-cost
C5_Witness ==
    /\ pc = "done"
    /\ \E i \in DOMAIN final_sorted :
          /\ final_sorted[i].pricing = [prompt |-> I(0),
                completion |-> S(<<"n", "o", "t", "-", "a", "-", "n", "u", "m", "b", "e", "r">>)]
          /\ ~final_sorted[i].flags.zero_cost
          /\ final_sorted[i].flags.free_tag

\* C2 terms: a valid score is present, numeric and not NaN; names compare
\* lower-cased, an absent name as the empty string
ClaimScored(m) == m.aa_overall.t = "float"

ClaimName(m) == IF m.name.t = "str" THEN Lower(m.name.s) ELSE <<>>

ClaimNameLeq(a, b) == ~StrLess(ClaimName(b), ClaimName(a))

ClaimScoreGreater(a, b) == a.aa_overall.num * b.aa_overall.den > b.aa_overall.num * a.aa_overall.den

\* C2: in the final list no unscored record precedes a scored one; scored records
\* are in descending score order, equal scores in ascending lower-cased name
\* order; unscored records (NaN included) are in ascending lower-cased name order.
C2_RankOrder ==
    pc \in {"ranked", "done"} =>
        \A i, j \in DOMAIN final_sorted :
            i < j =>
                LET a == final_sorted[i]
                    b == final_sorted[j]
                IN  /\ ClaimScored(b) => ClaimScored(a)
                    /\ ClaimScored(a) /\ ClaimScored(b) =>
                          \/ ClaimScoreGreater(a, b)
                          \/ a.aa_overall = b.aa_overall /\ ClaimNameLeq(a, b)
                    /\ ~ClaimScored(a) /\ ~ClaimScored(b) => ClaimNameLeq(a, b)

\* C2 witness: listed as "Beta" (90), "alpha" (90), "<script>" (no score), ranked
\* as "alpha", "Beta", "<script>"
C2_Witness ==
    /\ pc = "done"
    /\ world.listing.data = <<ItemZero, ItemFree, ItemTag>>
    /\ [i \in DOMAIN final_sorted |-> final_sorted[i].raw] = <<ItemFree, ItemZero, ItemTag>>
    /\ final_sorted[1].aa_overall = F(90, 1)
    /\ final_sorted[2].aa_overall = F(90, 1)
    /\ final_sorted[3].aa_overall = None

\* a NaN score ranked behind a numeric one that was listed after it
C2_NaNReached ==
    /\ pc = "done"
    /\ Len(final_sorted) = 2
    /\ final_sorted[1].aa_overall.t = "float"
    /\ final_sorted[2].aa_overall = NaN
    /\ world.listing.data[1] = final_sorted[2].raw

\* C3 terms
NoPrimaryKey ==
    /\ world.env # Unread
    /\ ~(world.env.OPENROUTER_API_KEY.t = "str" /\ world.env.OPENROUTER_API_KEY.s # <<>>)
    /\ world.key_file = None

ListingRaised == world.listing = Raise

\* C3: when no primary key is available or the listing call raised, the run has
\* ended with a non-zero exit status and has written nothing.
C3_FatalNoWrite ==
    NoPrimaryKey \/ ListingRaised =>
        /\ pc = "exit1"
        /\ ExitCode # 0
        /\ ~wrote
        /\ disk = None

\* C3 witness: a key was found and the listing call raised
C3_Witness == pc = "exit1" /\ api_key.t = "str" /\ ListingRaised

\* the other fatal exit
C3_NoKeyReached == pc = "exit1" /\ NoPrimaryKey /\ api_key = Raise

\* C4: with a primary key and a listing, the run never ends otherwise than by
\* writing the page and returning (exit status 0).
C4_NeverAborts ==
    ListingRead =>
        /\ pc # "crashed"
        /\ Ended => pc = "done" /\ wrote /\ ExitCode = 0

\* C6 terms
FetchFailed == world.aaresp # Unread /\ (world.aaresp.t = "neterr" \/ world.aaresp.status # 200)

\* C6: after a failed catalog fetch (network error, non-200 status) the index is
\* empty, no record has a score, and the run goes on to write the page and return.
C6_FetchFailureSkipsEnrichment ==
    FetchFailed =>
        /\ aa_index = <<>>
        /\ pc \in {"indexed", "ranked", "done"}
        /\ \A i \in DOMAIN models : models[i].aa_overall = None
        /\ \A i \in DOMAIN final_sorted : final_sorted[i].aa_overall = None
        /\ pc \in {"ranked", "done"} => Len(final_sorted) = Len(models)
        /\ pc = "done" => wrote /\ ExitCode = 0 /\ Occurrences(disk.body, RowStart) = Len(final_sorted)

\* C6 witness: HTTP 500, and a page with two records written
C6_Witness ==
    /\ pc = "done"
    /\ world.aaresp # Unread
    /\ world.aaresp.t = "http"
    /\ world.aaresp.status = 500
    /\ Len(final_sorted) = 2

\* C7 terms
MapMalformed ==
    /\ world.mapfile # Unread
    /\ \/ world.mapfile.t = "invalid"
       \/ world.mapfile.t = "json" /\ world.mapfile.value.t # "dict"

NotMapped == Lit("<div class='meta'>AA id: (not mapped) - score: ")

\* the texts a record is looked up by: id, name, display_name, those present
ClaimCandidates(m) ==
    LET fields == <<m.id, m.name, Get(m.raw, "display_name")>>
        IsText(v) == v.t = "str" /\ v.s # <<>>
        texts == SelectSeq(fields, IsText)
    IN  [i \in DOMAIN texts |-> texts[i].s]

\* C7 as stated: after a malformed mapping file, no record of the written page
\* carries an external id and every row shows the placeholder.
C7_AllUnmapped ==
    MapMalformed /\ pc = "done" =>
        /\ \A i \in DOMAIN final_sorted : final_sorted[i].aa_id = None
        /\ Occurrences(disk.body, NotMapped) = Len(final_sorted)

\* C7 amended: a malformed mapping file is an empty mapping and never ends the
\* run; each record then carries the id (or slug) of a catalog entry, or else its
\* own first candidate as a guess, and the placeholder shows only for a record
\* left without an external id.
C7_MalformedIsEmptyMapping ==
    MapMalformed =>
        /\ aa_map = <<>>
        /\ pc # "exit1"
        /\ pc \in {"ranked", "done"} =>
              \A i \in DOMAIN final_sorted :
                  LET m == final_sorted[i]
                  IN  \/ \E k \in DOMAIN aa_index :
                            /\ m.aa_overall = extract_overall_from_evaluations(
                                                 Or(Get(aa_index[k][2], "evaluations"), Dict(<<>>)))
                            /\ m.aa_id = Or(Get(aa_index[k][2], "id"), Get(aa_index[k][2], "slug"))
                      \/ /\ m.aa_overall = None
                         /\ ClaimCandidates(m) # <<>>
                         /\ m.aa_id = S(ClaimCandidates(m)[1])
                      \/ /\ m.aa_overall = None
                         /\ ClaimCandidates(m) = <<>>
                         /\ m.aa_id = None
        /\ pc = "done" =>
              /\ wrote
              /\ Occurrences(disk.body, NotMapped)
                   = Cardinality({i \in DOMAIN final_sorted : ~Truthy(final_sorted[i].aa_id)})

\* C7 witness: a page written after a mapping file that is not JSON, on which one
\* record carries a catalog entry's id and another its own id as a guess
C7_Witness ==
    /\ pc = "done"
    /\ world.mapfile.t = "invalid"
    /\ \E i, j \in DOMAIN final_sorted :
          /\ final_sorted[i].aa_overall # None
          /\ final_sorted[j].aa_overall = None
          /\ final_sorted[j].aa_id = final_sorted[j].id

Entities ==
    {<<"&", "a", "m", "p", ";">>, <<"&", "l", "t", ";">>, <<"&", "g", "t", ";">>,
     <<"&", "q", "u", "o", "t", ";">>, <<"&", "#", "x", "2", "7", ";">>}

\* no special character, except an "&" that starts one of the five entities
EscapedOnly(txt) ==
    \A i \in DOMAIN txt :
        /\ txt[i] \notin {"<", ">", "\"", "'"}
        /\ txt[i] = "&" =>
              \E e \in Entities : i + Len(e) - 1 <= Len(txt) /\ SubSeq(txt, i, i + Len(e) - 1) = e

\* html.escape as the library does it: "&" first, then the other four
ClaimEscape(s) ==
    Replace(Replace(Replace(Replace(Replace(s,
        <<"&">>, <<"&", "a", "m", "p", ";">>),
        <<"<">>, <<"&", "l", "t", ";">>),
        <<">">>, <<"&", "g", "t", ";">>),
        <<"\"">>, <<"&", "q", "u", "o", "t", ";">>),
        <<"'">>, <<"&", "#", "x", "2", "7", ";">>)

\* the text of the template
TemplateLits ==
    {Lit("<!doctype html>...<h1>...</h1><div class='muted'>Generated: "),
     Lit("</div><ul class='models-list'>"),
     Lit("<li class='muted'>No models found.</li>"),
     Lit("</ul><footer>...</footer></main></body></html>"),
     Lit("<li class='model'><h3>"), Lit("</h3><div class='meta'>"), Lit(" "),
     Lit("<span class='badge zero'>zero-cost</span>"), Lit("<span class='badge free'>:free</span>"),
     Lit("</div>"), Lit("<p>"), Lit("</p>"),
     Lit("<div class='meta'>pricing: prompt="), Lit(" completion="),
     Lit("<div class='meta'>AA id: "), Lit(" - score: "),
     Lit("<div class='meta'>AA id: (not mapped) - score: "),
     Lit("</li>"), Lit("\n")}

Fragments(doc) == Range(doc.head) \cup {doc.generated_at} \cup Range(doc.body)

\* the upstream text of a record that the page shows
ShownTexts(m) ==
    {v.s : v \in {x \in {m.id, m.name, m.description, m.aa_id,
                          Get(m.pricing, "prompt"), Get(m.pricing, "completion")} : x.t = "str"}}

\* C9: in the written page every fragment is either text of the template or
\* interpolated text in which none of & < > " ' occurs unescaped (so no "<script>"
\* either), and each upstream text of each record appears in its escaped form.
C9_AllInterpolatedTextEscaped ==
    disk # None =>
        /\ \A f \in Fragments(disk) :
              IF "txt" \in DOMAIN f
              THEN EscapedOnly(f.txt) /\ ~Contains(<<"<", "s", "c", "r", "i", "p", "t", ">">>, f.txt)
              ELSE f \in TemplateLits
        /\ pc = "done" =>
              \A i \in DOMAIN final_sorted :
                  \A text \in ShownTexts(final_sorted[i]) :
                      text # <<>> => Txt(ClaimEscape(text)) \in Range(disk.body)

\* C9 witness: a page showing a record named "<script>" and a record whose
\* description holds & ' and "
C9_Witness ==
    /\ pc = "done"
    /\ \E i, j \in DOMAIN final_sorted :
          /\ final_sorted[i].name = S(<<"<", "s", "c", "r", "i", "p", "t", ">">>)
          /\ final_sorted[j].description = S(<<"\"", "R", "&", "D", "'", "s", "\"">>)
    /\ Txt(<<"&", "l", "t", ";", "s", "c", "r", "i", "p", "t", "&", "g", "t", ";">>) \in Range(disk.body)

\* C10 terms: the three phases as the claim states them
ClaimKeys(index) == {index[i][1] : i \in DOMAIN index}

ClaimEntry(index, key) == index[CHOOSE i \in DOMAIN index : index[i][1] = key][2]

ClaimMappedHit(c, map, index) ==
    /\ PairsHas(map, Lower(c))
    /\ PairsGet(map, Lower(c)).t = "str"
    /\ PairsGet(map, Lower(c)).s # <<>>
    /\ Lower(PairsGet(map, Lower(c)).s) \in ClaimKeys(index)

\* an entry's lower-cased name or slug; an entry without one has none
ClaimEntryTexts(entry) ==
    {Lower(entry[f].s) : f \in {f \in {"name", "slug"} : f \in DOMAIN entry /\ entry[f].t = "str"}}

ClaimSubstringHit(c, entry) == \E text \in ClaimEntryTexts(entry) : Contains(Lower(c), text)

First(set) == CHOOSE i \in set : \A j \in set : i <= j

ClaimMatch(m, map, index) ==
    LET cands == ClaimCandidates(m)
        p1 == {i \in DOMAIN cands : ClaimMappedHit(cands[i], map, index)}
        p2 == {i \in DOMAIN cands : Lower(cands[i]) \in ClaimKeys(index)}
        p3 == {i \in DOMAIN cands : \E k \in DOMAIN index : ClaimSubstringHit(cands[i], index[k][2])}
    IN  IF p1 # {} THEN ClaimEntry(index, Lower(PairsGet(map, Lower(cands[First(p1)])).s))
        ELSE IF p2 # {} THEN ClaimEntry(index, Lower(cands[First(p2)]))
        ELSE IF p3 # {}
             THEN index[First({k \in DOMAIN index : ClaimSubstringHit(cands[First(p3)], index[k][2])})][2]
             ELSE None

\* C10: with a non-empty index, each record is resolved to the entry the three
\* phases of the claim give (mapping, then direct key, then substring of an
\* entry's name or slug; first match wins), or to none.
C10_ThreePhases ==
    pc \in {"ranked", "done"} /\ aa_index # <<>> =>
        \A i \in DOMAIN models :
            find_aa_data_for_model(models[i], aa_map, aa_index) = ClaimMatch(models[i], aa_map, aa_index)

\* every name and slug of the catalog is a str or missing
TextualIndex ==
    \A k \in DOMAIN aa_index :
        \A f \in {"name", "slug"} : f \in DOMAIN aa_index[k][2] => aa_index[k][2][f].t = "str"

\* C10 on catalogs without a null name or slug: there the three phases hold
C10_ThreePhasesOnTextualIndex == TextualIndex => C10_ThreePhases
====
